---- MODULE Spec2Model ----
(***************************************************************************)
(* Model of the compaction engine of backend/main.py: the record store     *)
(* (consultation_data/*.json), the content fingerprint, the duplicate      *)
(* grouper, the rate limiter, backup-directory validation and the          *)
(* /compact/duplicates handler.                                            *)
(*                                                                         *)
(* Modelling conventions                                                   *)
(*  - Strings that the code only compares for order (id, timestamp) are    *)
(*    naturals; 0 stands for "" and MissingKey for an absent key.          *)
(*  - A file of the store is named by a natural f and stands for           *)
(*    consultation_data/<f>.json; save_consultation writes record id i to  *)
(*    file i.                                                              *)
(*  - SHA-256 is modelled as injective: the digest is the canonical        *)
(*    serialisation itself (values in sorted key order).                   *)
(*  - Time is in whole seconds (strftime("%Y%m%d_%H%M%S") resolution).     *)
(*  - A request handler contains no await, so it is one atomic action.     *)
(***************************************************************************)
EXTENDS Integers, Sequences, FiniteSets, TLC

VARIABLES store, bdirs, rate, now, admitted, rejected, nsaves, inflight, call

vars == <<store, bdirs, rate, now, admitted, rejected, nsaves, inflight, call>>

(***************************************************************************)
(* Bounds of the model                                                     *)
(***************************************************************************)
MaxTime == 90

MaxSaves == 3

MaxRejected == 2

\* longest backup_dir argument, in path components
MaxPathLen == 4

\* most requests accepted and not yet run
MaxInflight == 2

\* The longest record list handed to the grouper
MaxRecords == 5

(***************************************************************************)
(* Program constants                                                       *)
(***************************************************************************)
RATE_LIMIT_WINDOW_SECONDS == 60

RATE_LIMIT_MAX_REQUESTS == 3

(***************************************************************************)
(* Values                                                                  *)
(***************************************************************************)
None == "None"

MissingKey == 0 - 1

EmptyStr == 0

\* The record ids and timestamps requests are drawn from
Ids == {1, 2, 3}

Stamps == {1, 2}

JunkFile == 0

FileNames == {JunkFile} \cup Ids

Client1 == "10.0.0.1"

Client2 == "10.0.0.2"

Clients == {Client1, Client2}

TickStep == RATE_LIMIT_WINDOW_SECONDS \div 2

\* A directory entry: no file, a file that is not valid JSON, a JSON value
\* that is not an object, or a JSON object (a consultation dict).
NoFile == [kind |-> "absent"]

InvalidJson == [kind |-> "invalid"]

JsonArray == [kind |-> "array"]

SemFields == {"vetName", "ownerName", "patientName", "species", "summary", "transcription"}

\* The semantic contents requests are drawn from.
SemEmpty == [vetName |-> "", ownerName |-> "", patientName |-> "", species |-> "", summary |-> "", transcription |-> None]

SemA == [vetName |-> "Dr", ownerName |-> "", patientName |-> "Rex", species |-> "", summary |-> "", transcription |-> None]

SemB == [vetName |-> "Dr", ownerName |-> "", patientName |-> "Rex", species |-> "", summary |-> "Bella", transcription |-> ""]

SemChoices == {SemEmpty, SemA, SemB}

\* ConsultationModel.model_dump(): the dict save_consultation writes.
ConsultationModel(id, timestamp, sem) ==
    [kind |-> "object", id |-> id, timestamp |-> timestamp,
     vetName |-> sem.vetName, ownerName |-> sem.ownerName,
     patientName |-> sem.patientName, species |-> sem.species,
     summary |-> sem.summary, transcription |-> sem.transcription,
     extractedData |-> None, attachments |-> <<>>]

IsObject(d) == d.kind = "object"

\* dict.get(key, default) for the two ordered keys
Get(d, key, default) == IF d[key] = MissingKey THEN default ELSE d[key]

Range(s) == {s[i] : i \in DOMAIN s}

(***************************************************************************)
(* Rate limiter                                                            *)
(***************************************************************************)
\* A prune that keeps a timestamp whose age is exactly the window
PruneExpired_Inclusive(history, current_time) ==
    SelectSeq(history, LAMBDA ts : current_time - ts <= RATE_LIMIT_WINDOW_SECONDS)

\* the list comprehension of _check_rate_limit: keep ts with age < window
PruneExpired(history, current_time) ==
    SelectSeq(history, LAMBDA ts : current_time - ts < RATE_LIMIT_WINDOW_SECONDS)

\* _rate_limit_store after _check_rate_limit(client_id) at current_time and
\* the value it returns.  The table is a function whose domain is the set of
\* keys of the dict.
History(table, client_id) ==
    IF client_id \in DOMAIN table THEN table[client_id] ELSE <<>>

SetKey(table, k, v) ==
    [x \in DOMAIN table \cup {k} |-> IF x = k THEN v ELSE table[x]]

\* A limiter that lets max_requests + 1 requests through
_check_rate_limit_OffByOne(table, client_id, current_time, max_requests) ==
    LET pruned == PruneExpired(History(table, client_id), current_time)
    IN  IF Len(pruned) > max_requests
        THEN [allowed |-> FALSE, table |-> SetKey(table, client_id, pruned)]
        ELSE [allowed |-> TRUE,
              table |-> SetKey(table, client_id, Append(pruned, current_time))]

\* A limiter that records rejected requests too
_check_rate_limit_RecordsRejected(table, client_id, current_time, max_requests) ==
    LET pruned == PruneExpired(History(table, client_id), current_time)
    IN  [allowed |-> Len(pruned) < max_requests,
         table |-> SetKey(table, client_id, Append(pruned, current_time))]

\* A limiter whose append works on a history read before the prune of another
\* request: the stored list is replaced by the new timestamp alone
_check_rate_limit_LostUpdate(table, client_id, current_time, max_requests) ==
    LET pruned == PruneExpired(History(table, client_id), current_time)
    IN  IF Len(pruned) >= max_requests
        THEN [allowed |-> FALSE, table |-> SetKey(table, client_id, pruned)]
        ELSE [allowed |-> TRUE,
              table |-> SetKey(table, client_id, <<current_time>>)]

\* A limiter that checks the pruned history but stores the unpruned one
_check_rate_limit_KeepsExpired(table, client_id, current_time, max_requests) ==
    LET pruned == PruneExpired(History(table, client_id), current_time)
    IN  IF Len(pruned) >= max_requests
        THEN [allowed |-> FALSE, table |-> SetKey(table, client_id, History(table, client_id))]
        ELSE [allowed |-> TRUE,
              table |-> SetKey(table, client_id,
                               Append(History(table, client_id), current_time))]

\* A limiter that counts the unexpired requests of all clients together
_check_rate_limit_GlobalCount(table, client_id, current_time, max_requests) ==
    LET pruned == PruneExpired(History(table, client_id), current_time)
    IN  IF \E c \in DOMAIN table : Len(PruneExpired(table[c], current_time)) >= max_requests
        THEN [allowed |-> FALSE, table |-> SetKey(table, client_id, pruned)]
        ELSE [allowed |-> TRUE,
              table |-> SetKey(table, client_id, Append(pruned, current_time))]

_check_rate_limit(table, client_id, current_time, max_requests) ==
    LET pruned == PruneExpired(History(table, client_id), current_time)
    IN  IF Len(pruned) >= max_requests
        THEN [allowed |-> FALSE, table |-> SetKey(table, client_id, pruned)]
        ELSE [allowed |-> TRUE,
              table |-> SetKey(table, client_id, Append(pruned, current_time))]

(***************************************************************************)
(* Content fingerprint and duplicate grouper                               *)
(***************************************************************************)
EmptyHash == <<>>

\* A fingerprint over the fields the handler's docstring lists, without species
_compute_content_hash_NoSpecies(consultation) ==
    IF \A k \in SemFields : consultation[k] = None \/ consultation[k] = ""
    THEN <<>>
    ELSE <<consultation.ownerName, consultation.patientName,
           consultation.summary, consultation.transcription, consultation.vetName>>

\* A fingerprint without the test for empty content
_compute_content_hash_NoEmptyCheck(consultation) ==
    <<consultation.ownerName, consultation.patientName, consultation.species,
      consultation.summary, consultation.transcription, consultation.vetName>>

\* json.dumps(content_fields, sort_keys=True) hashed by an injective digest
_compute_content_hash(consultation) ==
    IF \A k \in SemFields : consultation[k] = None \/ consultation[k] = ""
    THEN EmptyHash
    ELSE <<consultation.ownerName, consultation.patientName, consultation.species,
           consultation.summary, consultation.transcription, consultation.vetName>>

\* hash_map is an insertion-ordered dict: a sequence of [hash, group] entries
RECURSIVE HashMapAdd(_, _, _)
HashMapAdd(hash_map, content_hash, consultation) ==
    IF hash_map = <<>>
    THEN <<[hash |-> content_hash, group |-> <<consultation>>]>>
    ELSE IF Head(hash_map).hash = content_hash
         THEN <<[hash |-> content_hash, group |-> Append(Head(hash_map).group, consultation)]>>
              \o Tail(hash_map)
         ELSE <<Head(hash_map)>> \o HashMapAdd(Tail(hash_map), content_hash, consultation)

RECURSIVE BuildHashMap(_, _)
BuildHashMap(hash_map, consultations) ==
    IF consultations = <<>> THEN hash_map
    ELSE LET consultation == Head(consultations)
             content_hash == _compute_content_hash(consultation)
         IN  IF content_hash = EmptyHash
             THEN BuildHashMap(hash_map, Tail(consultations))
             ELSE BuildHashMap(HashMapAdd(hash_map, content_hash, consultation),
                               Tail(consultations))

\* A grouper that returns every entry of hash_map
_find_duplicate_consultations_KeepsSingletons(consultations) ==
    BuildHashMap(<<>>, consultations)

\* Lines 331-348: the entries of hash_map with more than one record
_find_duplicate_consultations(consultations) ==
    SelectSeq(BuildHashMap(<<>>, consultations),
              LAMBDA e : Len(e.group) > 1)

\* A key without the id as tie-break
SortKey_TimestampOnly(c) == <<Get(c, "timestamp", EmptyStr), EmptyStr>>

\* key=lambda c: (c.get("timestamp", ""), c.get("id", "")), compared as tuples
SortKey(c) == <<Get(c, "timestamp", EmptyStr), Get(c, "id", EmptyStr)>>

\* A comparison of the first component only
KeyLess_FirstOnly(a, b) == a[1] < b[1]

\* tuple comparison of two keys
KeyLess(a, b) == a[1] < b[1] \/ (a[1] = b[1] /\ a[2] < b[2])

\* sorted(group, key=..., reverse=True): stable, equal keys keep input order
RECURSIVE InsertDescending(_, _)
InsertDescending(sorted, c) ==
    IF sorted = <<>> THEN <<c>>
    ELSE IF KeyLess(SortKey(Head(sorted)), SortKey(c))
         THEN <<c>> \o sorted
         ELSE <<Head(sorted)>> \o InsertDescending(Tail(sorted), c)

RECURSIVE SortedGroup(_, _)
SortedGroup(sorted, group) ==
    IF group = <<>> THEN sorted
    ELSE SortedGroup(InsertDescending(sorted, Head(group)), Tail(group))

\* A slice that retains the last record of the sorted group, the oldest
ToRemove_KeepsOldest(group) ==
    SubSeq(SortedGroup(<<>>, group), 1, Len(SortedGroup(<<>>, group)) - 1)

\* A slice that keeps no record of the group
ToRemove_WholeGroup(group) == SortedGroup(<<>>, group)

\* A slice that lists every victim twice
ToRemove_Twice(group) == Tail(SortedGroup(<<>>, group)) \o Tail(SortedGroup(<<>>, group))

\* sorted_group[1:] : everything but the first (retained) record
ToRemove(group) == Tail(SortedGroup(<<>>, group))

(***************************************************************************)
(* File sizes                                                              *)
(***************************************************************************)
StrLen(s) ==
    CASE s = "" -> 0
      [] s = "Dr" -> 2
      [] s = "Rex" -> 3
      [] s = "Bella" -> 5
      [] OTHER -> 4

\* length of the JSON text of a semantic value: null, or the quoted string
ValueSize(v) == IF v = None THEN 4 ELSE StrLen(v) + 2

ObjectOverhead == 200

InvalidSize == 7

ArraySize == 2

\* _get_file_size: st_size of the file holding content
_get_file_size(content) ==
    CASE content.kind = "object" ->
           ObjectOverhead + ValueSize(content.vetName) + ValueSize(content.ownerName)
           + ValueSize(content.patientName) + ValueSize(content.species)
           + ValueSize(content.summary) + ValueSize(content.transcription)
      [] content.kind = "invalid" -> InvalidSize
      [] content.kind = "array" -> ArraySize
      [] OTHER -> 0

(***************************************************************************)
(* Backup directory validation                                             *)
(***************************************************************************)
\* A path is a sequence of components; an absolute path starts with "/".
\* A resolved path is the sequence of components below the root.
Cwd == <<"srv", "vetai">>

Home == <<"home", "vet">>

Tmp == <<"tmp">>

\* CONSULTATION_DIR = Path("./consultation_data"), resolved
CONSULTATION_DIR == Cwd \o <<"consultation_data">>

\* The symbolic links of the file system: /tmp/lnk -> /etc
IsSymlink(p) == p = <<"tmp", "lnk">>

SymlinkTarget(p) == <<"etc">>

RECURSIVE Normalize(_, _)
Normalize(resolved, parts) ==
    IF parts = <<>> THEN resolved
    ELSE LET c == Head(parts)
             step == IF c = ".."
                     THEN (IF resolved = <<>> THEN <<>> ELSE SubSeq(resolved, 1, Len(resolved) - 1))
                     ELSE resolved \o <<c>>
             target == IF IsSymlink(step) THEN SymlinkTarget(step) ELSE step
         IN  Normalize(target, Tail(parts))

\* Path(p).resolve()
Resolve(p) ==
    IF p # <<>> /\ Head(p) = "/" THEN Normalize(<<>>, Tail(p)) ELSE Normalize(Cwd, p)

\* A containment test on the first component only
IsRelativeTo_FirstComponent(path, base) ==
    path # <<>> /\ path[1] = base[1]

\* requested_path.relative_to(base) succeeds
IsRelativeTo(path, base) ==
    Len(path) >= Len(base) /\ SubSeq(path, 1, Len(base)) = base

\* [CONSULTATION_DIR.parent, Path("/tmp"), Path.home()], each resolved
AllowedBases == {Cwd, Tmp, Home}

\* _validate_backup_directory: the resolved path, or a ValueError
_validate_backup_directory(backup_dir) ==
    LET requested_path == Resolve(backup_dir)
    IN  IF \E allowed_base \in AllowedBases : IsRelativeTo(requested_path, allowed_base)
        THEN [ok |-> TRUE, path |-> requested_path]
        ELSE [ok |-> FALSE, path |-> <<>>]

\* CONSULTATION_DIR.parent / "consultation_backup" / datetime.now().strftime(...)
DefaultBackupPath(t) == Cwd \o <<"consultation_backup", ToString(t)>>

(***************************************************************************)
(* The record store and the /compact/duplicates handler                    *)
(***************************************************************************)
\* the files CONSULTATION_DIR.glob("*.json") enumerates
Glob(dir) == {f \in FileNames : dir[f] # NoFile}

\* the orders in which glob may yield the files
GlobOrders(dir) ==
    {o \in [1..Cardinality(Glob(dir)) -> Glob(dir)] :
        \A i, j \in DOMAIN o : i # j => o[i] # o[j]}

\* Lines 425-432: json.load, then consultations.append(data), then
\* file_map[data["id"]] = file_path; an exception at any point skips the rest
\* of the three statements for that file.
RECURSIVE LoadAll(_, _, _, _)
LoadAll(dir, order, consultations, file_map) ==
    IF order = <<>> THEN [consultations |-> consultations, file_map |-> file_map]
    ELSE LET file_path == Head(order)
             data == dir[file_path]
         IN  IF data.kind = "invalid"
             THEN LoadAll(dir, Tail(order), consultations, file_map)
             ELSE IF data.kind = "array" \/ data.id = MissingKey
                  THEN LoadAll(dir, Tail(order), Append(consultations, data), file_map)
                  ELSE LoadAll(dir, Tail(order), Append(consultations, data),
                               SetKey(file_map, data.id, file_path))

\* Lines 465-469: the victims of one group that have a known, existing file
RECURSIVE GroupFiles(_, _)
GroupFiles(to_remove, file_map) ==
    IF to_remove = <<>> THEN <<>>
    ELSE LET consultation == Head(to_remove)
             rest == GroupFiles(Tail(to_remove), file_map)
         IN  IF consultation.id # MissingKey /\ consultation.id \in DOMAIN file_map
             THEN <<file_map[consultation.id]>> \o rest
             ELSE rest

\* Lines 448-469: files_to_remove over all groups, in dict order
RECURSIVE FilesToRemove(_, _)
FilesToRemove(duplicate_groups, file_map) ==
    IF duplicate_groups = <<>> THEN <<>>
    ELSE GroupFiles(ToRemove(Head(duplicate_groups).group), file_map)
         \o FilesToRemove(Tail(duplicate_groups), file_map)

\* total_space_saved: the sizes of the files appended to files_to_remove
RECURSIVE TotalSpaceSaved(_, _)
TotalSpaceSaved(dir, files_to_remove) ==
    IF files_to_remove = <<>> THEN 0
    ELSE _get_file_size(dir[Head(files_to_remove)])
         + TotalSpaceSaved(dir, Tail(files_to_remove))

NoDir == <<>>

NoBackupDir == <<>>

DirFiles(dirs, path) ==
    IF path \in DOMAIN dirs THEN dirs[path] ELSE [f \in FileNames |-> NoFile]

\* backup_path.mkdir(parents=True, exist_ok=True)
Mkdir(dirs, path) ==
    IF path = CONSULTATION_DIR \/ path \in DOMAIN dirs THEN dirs
    ELSE SetKey(dirs, path, [f \in FileNames |-> NoFile])

Outcomes == {"ok", "error"}

\* A move that unlinks the source without writing the destination
Move_LosesFile(fs, name, backup_path, outcome) ==
    IF fs.store[name] = NoFile \/ outcome = "error"
    THEN [fs |-> fs, done |-> FALSE]
    ELSE [fs |-> [store |-> [fs.store EXCEPT ![name] = NoFile], bdirs |-> fs.bdirs],
          done |-> TRUE]

\* shutil.move(src_path, backup_path / src_path.name) on the file system fs:
\* os.rename replaces an existing destination; a rename of a file onto itself
\* succeeds and changes nothing.  On an OSError nothing has changed.
Move(fs, name, backup_path, outcome) ==
    IF fs.store[name] = NoFile \/ outcome = "error"
    THEN [fs |-> fs, done |-> FALSE]
    ELSE IF backup_path = CONSULTATION_DIR
    THEN [fs |-> fs, done |-> TRUE]
    ELSE [fs |-> [store |-> [fs.store EXCEPT ![name] = NoFile],
                  bdirs |-> SetKey(fs.bdirs, backup_path,
                                   [DirFiles(fs.bdirs, backup_path)
                                        EXCEPT ![name] = fs.store[name]])],
          done |-> TRUE]

\* A removal whose failure goes unnoticed
Remove_FailureUnnoticed(fs, name, outcome) ==
    IF fs.store[name] = NoFile \/ outcome # "ok"
    THEN [fs |-> fs, done |-> TRUE]
    ELSE [fs |-> [store |-> [fs.store EXCEPT ![name] = NoFile], bdirs |-> fs.bdirs],
          done |-> TRUE]

\* os.remove(file_path_str)
Remove(fs, name, outcome) ==
    IF fs.store[name] = NoFile \/ outcome # "ok"
    THEN [fs |-> fs, done |-> FALSE]
    ELSE [fs |-> [store |-> [fs.store EXCEPT ![name] = NoFile], bdirs |-> fs.bdirs],
          done |-> TRUE]

\* Lines 490-506: the loop over files_to_remove; oc[i] is the outcome of the
\* i-th file operation
RECURSIVE ProcessFiles(_, _, _, _, _, _)
ProcessFiles(acc, files_to_remove, i, backup, backup_path, oc) ==
    IF i > Len(files_to_remove) THEN acc
    ELSE LET file_path_str == files_to_remove[i]
             fs == [store |-> acc.store, bdirs |-> acc.bdirs]
         IN  IF backup /\ backup_path # NoDir
             THEN LET r == Move(fs, file_path_str, backup_path, oc[i])
                  IN  ProcessFiles([store |-> r.fs.store, bdirs |-> r.fs.bdirs,
                                    files_deleted |-> acc.files_deleted,
                                    files_backed_up |->
                                        IF r.done THEN Append(acc.files_backed_up, file_path_str)
                                        ELSE acc.files_backed_up],
                                   files_to_remove, i + 1, backup, backup_path, oc)
             ELSE LET r == Remove(fs, file_path_str, oc[i])
                  IN  ProcessFiles([store |-> r.fs.store, bdirs |-> r.fs.bdirs,
                                    files_deleted |->
                                        IF r.done THEN Append(acc.files_deleted, file_path_str)
                                        ELSE acc.files_deleted,
                                    files_backed_up |-> acc.files_backed_up],
                                   files_to_remove, i + 1, backup, backup_path, oc)

\* Lines 422-469: load, group, choose victims.  "raised" is the exception
\* _find_duplicate_consultations raises on a loaded value without .get().
Scan(dir, order) ==
    LET loaded == LoadAll(dir, order, <<>>, <<>>)
        raised == \E i \in DOMAIN loaded.consultations : ~IsObject(loaded.consultations[i])
        duplicate_groups == IF raised THEN <<>>
                            ELSE _find_duplicate_consultations(loaded.consultations)
        files_to_remove == FilesToRemove(duplicate_groups, loaded.file_map)
    IN  [consultations |-> loaded.consultations,
         file_map |-> loaded.file_map,
         raised |-> raised,
         duplicate_groups |-> duplicate_groups,
         files_to_remove |-> files_to_remove,
         total_space_saved |-> TotalSpaceSaved(dir, files_to_remove)]

\* The response of a request, successful or not; loaded and files_to_remove
\* are the handler's len(consultations) and files_to_remove, kept for
\* inspection.
Response(status, detail, loaded, files_to_remove, duplicates_removed, files_deleted, files_backed_up, backup_directory, space_saved_bytes, remaining_consultations) ==
    [status |-> status, detail |-> detail, loaded |-> loaded,
     files_to_remove |-> files_to_remove,
     duplicates_removed |-> duplicates_removed,
     files_deleted |-> files_deleted, files_backed_up |-> files_backed_up,
     backup_directory |-> backup_directory,
     space_saved_bytes |-> space_saved_bytes,
     remaining_consultations |-> remaining_consultations]

\* raise HTTPException(status_code=..., detail=...)
HTTPException(status, detail) ==
    Response(status, detail, 0, <<>>, 0, <<>>, <<>>, NoDir, 0, 0)

\* A handler that swallows the exception and answers with a summary
ExceptException_Swallowed(exc) ==
    Response(200, exc.detail, 0, <<>>, 0, <<>>, <<>>, NoDir, 0, 0)

\* Lines 520-522: except Exception catches whatever the body raised,
\* HTTPException included, and raises HTTPException(500)
ExceptException(exc) == HTTPException(500, exc.detail)

\* A result that counts the files actually processed
CompactResult_CountsProcessed(consultations, files_to_remove, files_deleted, files_backed_up, backup_path, total_space_saved) ==
    Response(200, "", Len(consultations), files_to_remove,
             Len(files_deleted) + Len(files_backed_up), files_deleted, files_backed_up,
             backup_path, total_space_saved, Len(consultations) - Len(files_to_remove))

\* Lines 508-518
CompactResult(consultations, files_to_remove, files_deleted, files_backed_up, backup_path, total_space_saved) ==
    Response(200, "", Len(consultations), files_to_remove,
             Len(files_to_remove), files_deleted, files_backed_up,
             backup_path, total_space_saved, Len(consultations) - Len(files_to_remove))

\* Lines 476-486: the backup directory of the run, NoDir when none is set up
BackupSetup(dry_run, backup, backup_dir, files_to_remove, current_time) ==
    IF backup /\ files_to_remove # <<>> /\ ~dry_run
    THEN IF backup_dir # NoBackupDir
         THEN _validate_backup_directory(backup_dir)
         ELSE [ok |-> TRUE, path |-> DefaultBackupPath(current_time)]
    ELSE [ok |-> TRUE, path |-> NoDir]

\* Lines 471-518: what the handler does once the records are scanned, on the
\* file system fs at current_time.  mkdir_ok tells whether backup_path.mkdir
\* succeeds, oc[i] the outcome of the i-th file operation.
CompactBody(fs, scan, current_time, dry_run, backup, backup_dir, mkdir_ok, oc) ==
    LET setup == BackupSetup(dry_run, backup, backup_dir, scan.files_to_remove, current_time)
    IN  IF scan.consultations = <<>>
        THEN [fs |-> fs, resp |-> CompactResult(<<>>, <<>>, <<>>, <<>>, NoDir, 0)]
        ELSE IF scan.raised
        THEN [fs |-> fs, resp |-> ExceptException([detail |-> "AttributeError"])]
        ELSE IF ~setup.ok
        THEN [fs |-> fs,
              resp |-> ExceptException(HTTPException(400, "invalid backup directory"))]
        ELSE IF setup.path # NoDir /\ ~mkdir_ok
        THEN [fs |-> fs, resp |-> ExceptException([detail |-> "OSError"])]
        ELSE LET start == [store |-> fs.store,
                           bdirs |-> IF setup.path # NoDir THEN Mkdir(fs.bdirs, setup.path)
                                     ELSE fs.bdirs,
                           files_deleted |-> <<>>, files_backed_up |-> <<>>]
                 done == IF dry_run THEN start
                         ELSE ProcessFiles(start, scan.files_to_remove, 1, backup,
                                           setup.path, oc)
             IN  [fs |-> [store |-> done.store, bdirs |-> done.bdirs],
                  resp |-> CompactResult(scan.consultations, scan.files_to_remove,
                                         done.files_deleted, done.files_backed_up,
                                         setup.path, scan.total_space_saved)]

\* A gate that also rate-limits dry runs
RateGate_NoDryRunBypass(table, client_id, current_time, dry_run) ==
    _check_rate_limit(table, client_id, current_time, RATE_LIMIT_MAX_REQUESTS)

\* Lines 412-414: the rate-limit check, skipped for dry runs
RateGate(table, client_id, current_time, dry_run) ==
    IF dry_run THEN [allowed |-> TRUE, table |-> table]
    ELSE _check_rate_limit(table, client_id, current_time, RATE_LIMIT_MAX_REQUESTS)

\* A handler that records the request in the history only after the run
\* succeeded
CompactScanned_ChargesOnSuccess(fs, table, scan, current_time, client_id, dry_run, backup, backup_dir, mkdir_ok, oc) ==
    LET gate == RateGate(table, client_id, current_time, dry_run)
    IN  IF ~gate.allowed
        THEN [fs |-> fs, table |-> gate.table, admitted |-> FALSE,
              resp |-> HTTPException(429, "Rate limit exceeded")]
        ELSE LET body == CompactBody(fs, scan, current_time, dry_run, backup, backup_dir,
                                     mkdir_ok, oc)
             IN  [fs |-> body.fs,
                  table |-> IF body.resp.status = 200 THEN gate.table ELSE table,
                  admitted |-> ~dry_run, resp |-> body.resp]

\* Lines 411-418 followed by the body, given the scan of the store
CompactScanned(fs, table, scan, current_time, client_id, dry_run, backup, backup_dir, mkdir_ok, oc) ==
    LET gate == RateGate(table, client_id, current_time, dry_run)
    IN  IF ~gate.allowed
        THEN [fs |-> fs, table |-> gate.table, admitted |-> FALSE,
              resp |-> HTTPException(429, "Rate limit exceeded")]
        ELSE LET body == CompactBody(fs, scan, current_time, dry_run, backup, backup_dir,
                                     mkdir_ok, oc)
             IN  [fs |-> body.fs, table |-> gate.table, admitted |-> ~dry_run,
                  resp |-> body.resp]

\* The whole handler: order is the order in which glob yields the files
compact_duplicates(fs, table, current_time, client_id, dry_run, backup, backup_dir, order, mkdir_ok, oc) ==
    CompactScanned(fs, table, Scan(fs.store, order), current_time, client_id, dry_run,
                   backup, backup_dir, mkdir_ok, oc)

\* The environment's choices in one run: mkdir can only fail when the run
\* sets up a directory that does not exist yet; the loop of lines 490-506
\* performs one file operation per entry of files_to_remove
MkdirOutcomes(dirs, scan, current_time, dry_run, backup, backup_dir) ==
    LET setup == BackupSetup(dry_run, backup, backup_dir, scan.files_to_remove, current_time)
    IN  IF setup.ok /\ setup.path # NoDir /\ setup.path # CONSULTATION_DIR
           /\ setup.path \notin DOMAIN dirs
        THEN BOOLEAN ELSE {TRUE}

FileOpOutcomes(scan, dry_run) ==
    [1..(IF dry_run THEN 0 ELSE Len(scan.files_to_remove)) -> Outcomes]

(***************************************************************************)
(* The /compact/stats handler                                              *)
(***************************************************************************)
\* Lines 535-544: every file is counted and sized; a file whose json.load
\* succeeds is appended and counted as a consultation
RECURSIVE StatsLoop(_, _, _)
StatsLoop(dir, order, acc) ==
    IF order = <<>> THEN acc
    ELSE LET data == dir[Head(order)]
             sized == [acc EXCEPT !.total_files = @ + 1,
                                  !.total_size = @ + _get_file_size(data)]
         IN  IF data.kind = "invalid"
             THEN StatsLoop(dir, Tail(order), sized)
             ELSE StatsLoop(dir, Tail(order),
                            [sized EXCEPT !.consultations = Append(@, data),
                                          !.consultation_count = @ + 1])

\* sum(len(group) - 1 for group in duplicate_groups.values())
RECURSIVE SumExtra(_)
SumExtra(duplicate_groups) ==
    IF duplicate_groups = <<>> THEN 0
    ELSE (Len(Head(duplicate_groups).group) - 1) + SumExtra(Tail(duplicate_groups))

Max(a, b) == IF a >= b THEN a ELSE b

StatsResponse(status, total_files, total_size_bytes, consultation_count, potential_duplicates, potential_space_recovery_bytes) ==
    [status |-> status, total_files |-> total_files,
     total_size_bytes |-> total_size_bytes,
     consultation_count |-> consultation_count,
     potential_duplicates |-> potential_duplicates,
     potential_space_recovery_bytes |-> potential_space_recovery_bytes]

\* An estimate that multiplies by the total size instead of the average
StatsBody_NoAverage(dir, order) ==
    LET loop == StatsLoop(dir, order,
                          [total_files |-> 0, total_size |-> 0,
                           consultations |-> <<>>, consultation_count |-> 0])
        potential_duplicates ==
            IF \E i \in DOMAIN loop.consultations : ~IsObject(loop.consultations[i])
            THEN 0
            ELSE SumExtra(_find_duplicate_consultations(loop.consultations))
    IN  StatsResponse(200, loop.total_files, loop.total_size, loop.consultation_count,
                      potential_duplicates, potential_duplicates * loop.total_size)

\* Lines 528-562 on the directory dir: the response of the handler
StatsBody(dir, order) ==
    LET loop == StatsLoop(dir, order,
                          [total_files |-> 0, total_size |-> 0,
                           consultations |-> <<>>, consultation_count |-> 0])
        raised == \E i \in DOMAIN loop.consultations : ~IsObject(loop.consultations[i])
        potential_duplicates ==
            IF loop.consultations = <<>> THEN 0
            ELSE SumExtra(_find_duplicate_consultations(loop.consultations))
    IN  IF raised
        THEN StatsResponse(500, 0, 0, 0, 0, 0)
        ELSE StatsResponse(200, loop.total_files, loop.total_size, loop.consultation_count,
                           potential_duplicates,
                           potential_duplicates
                               * (loop.total_size \div Max(loop.consultation_count, 1)))

\* A stats handler that passes the rate-limit check of the destructive
\* operation first
get_compaction_stats_RateLimited(fs, table, current_time, order) ==
    LET gate == _check_rate_limit(table, Client1, current_time, RATE_LIMIT_MAX_REQUESTS)
    IN  IF gate.allowed
        THEN [fs |-> fs, table |-> gate.table, resp |-> StatsBody(fs.store, order)]
        ELSE [fs |-> fs, table |-> gate.table, resp |-> StatsResponse(429, 0, 0, 0, 0, 0)]

\* GET /compact/stats: the file system and rate-limit table it leaves and its
\* response.  The handler only globs, stats and reads.
get_compaction_stats(fs, table, current_time, order) ==
    [fs |-> fs, table |-> table, resp |-> StatsBody(fs.store, order)]

(***************************************************************************)
(* State machine                                                           *)
(*                                                                         *)
(* store    : the files of CONSULTATION_DIR                                *)
(* bdirs    : the backup directories created so far and their files        *)
(* rate     : _rate_limit_store                                            *)
(* now      : the wall clock, in seconds                                   *)
(* admitted : history of the times at which each client's non-dry-run      *)
(*            requests passed the rate-limit gate (never pruned)           *)
(* rejected : number of 429 responses each client received, counted up to  *)
(*            MaxRejected                                                  *)
(* nsaves   : number of save requests served                               *)
(* inflight : the compaction requests the server has accepted and the      *)
(*            event loop has not run yet                                   *)
(* call     : the call of a helper function under study, with its result   *)
(***************************************************************************)
EmptyStore == [f \in FileNames |-> NoFile]

NoCall == [fn |-> "none"]

\* The process starts on an empty consultation directory
InitEmpty ==
    /\ store = EmptyStore
    /\ bdirs = <<>>
    /\ rate = <<>>
    /\ now = 0
    /\ admitted = [c \in Clients |-> <<>>]
    /\ rejected = [c \in Clients |-> 0]
    /\ nsaves = 0
    /\ inflight = <<>>
    /\ call = NoCall

\* The directories earlier save requests leave behind: <id>.json holds the
\* dump of a record with that id, for any subset of the ids
SavedStores ==
    {[f \in FileNames |-> IF f \in DOMAIN c
                          THEN ConsultationModel(f, c[f][1], c[f][2])
                          ELSE NoFile] :
        c \in UNION {[S -> Stamps \X SemChoices] : S \in SUBSET Ids}}

\* The process starts on a consultation directory written by earlier runs
Init ==
    /\ store \in SavedStores
    /\ bdirs = <<>>
    /\ rate = <<>>
    /\ now = 0
    /\ admitted = [c \in Clients |-> <<>>]
    /\ rejected = [c \in Clients |-> 0]
    /\ nsaves = 0
    /\ inflight = <<>>
    /\ call = NoCall

\* The clock advances
Tick ==
    /\ now + TickStep <= MaxTime
    /\ now' = now + TickStep
    /\ UNCHANGED <<store, bdirs, rate, admitted, rejected, nsaves, inflight, call>>

\* The ids a save request can carry: `id: str` of ConsultationModel accepts
\* any string.  ParentId stands for the string "../1".
ParentId == 11

SaveIds == Ids \cup {ParentId}

\* Line 214: CONSULTATION_DIR / f"{consultation.id}.json", as the directory
\* and the file name the path denotes
SavePath(id) ==
    IF id = ParentId THEN [dir |-> Cwd, name |-> 1]
    ELSE [dir |-> CONSULTATION_DIR, name |-> id]

\* Lines 216-217: open(file_path, 'w') and json.dump of the model
WriteConsultation(fs, consultation) ==
    LET p == SavePath(consultation.id)
    IN  IF p.dir = CONSULTATION_DIR
        THEN [store |-> [fs.store EXCEPT ![p.name] = consultation], bdirs |-> fs.bdirs]
        ELSE [store |-> fs.store,
              bdirs |-> SetKey(fs.bdirs, p.dir,
                               [DirFiles(fs.bdirs, p.dir) EXCEPT ![p.name] = consultation])]

\* POST /save_consultation: lines 214-217 write the dump to <id>.json
save_consultation(id, timestamp, sem) ==
    LET w == WriteConsultation([store |-> store, bdirs |-> bdirs],
                               ConsultationModel(id, timestamp, sem))
    IN  /\ nsaves < MaxSaves
        /\ nsaves' = nsaves + 1
        /\ store' = w.store
        /\ bdirs' = w.bdirs
        /\ UNCHANGED <<rate, now, admitted, rejected, inflight, call>>

\* POST /compact/duplicates; scan is Scan(store, order) for the order in which
\* glob yields the files in this run
CompactDuplicates(client_id, dry_run, backup, backup_dir, scan) ==
    \E mkdir_ok \in MkdirOutcomes(bdirs, scan, now, dry_run, backup, backup_dir),
       oc \in FileOpOutcomes(scan, dry_run) :
      LET r == CompactScanned([store |-> store, bdirs |-> bdirs], rate, scan, now,
                              client_id, dry_run, backup, backup_dir, mkdir_ok, oc)
      IN  /\ store' = r.fs.store
          /\ bdirs' = r.fs.bdirs
          /\ rate' = r.table
          /\ admitted' = IF r.admitted
                         THEN [admitted EXCEPT ![client_id] = Append(@, now)]
                         ELSE admitted
          /\ rejected' = IF r.resp.status = 429 /\ rejected[client_id] < MaxRejected
                         THEN [rejected EXCEPT ![client_id] = @ + 1]
                         ELSE rejected
          /\ UNCHANGED <<now, nsaves, call>>

BackupDirInputs == {NoBackupDir, <<"/", "tmp", "bk">>, <<"consultation_data">>, <<"/", "etc">>}

Save ==
    \E id \in SaveIds, timestamp \in Stamps, sem \in SemChoices :
        save_consultation(id, timestamp, sem)

Compact ==
    \E order \in GlobOrders(store) :
      LET scan == Scan(store, order)
      IN  \E dry_run \in BOOLEAN, backup \in BOOLEAN, backup_dir \in BackupDirInputs :
            /\ CompactDuplicates(Client1, dry_run, backup, backup_dir, scan)
            /\ UNCHANGED inflight

\* GET /compact/stats
Stats ==
    \E order \in GlobOrders(store) :
      LET r == get_compaction_stats([store |-> store, bdirs |-> bdirs], rate, now, order)
      IN  /\ store' = r.fs.store
          /\ bdirs' = r.fs.bdirs
          /\ rate' = r.table
          /\ UNCHANGED <<now, admitted, rejected, nsaves, inflight, call>>

\* Compaction runs of one client and stats requests within one second, on any
\* directory that save requests can have written
Next == Compact \/ Stats

Spec == Init /\ [][Next]_vars

\* Saves and compaction runs of one client within one second
NextSaves == Save \/ Compact

SpecSaves == InitEmpty /\ [][NextSaves]_vars

\* Save requests only, from an empty directory
NextSave == Save

SpecSave == InitEmpty /\ [][NextSave]_vars

\* What a file that no save request wrote can hold: text that is not JSON, a
\* JSON array, or a JSON object without the key "id"
ForeignFiles ==
    {InvalidJson, JsonArray}
        \cup {ConsultationModel(MissingKey, t, m) : t \in Stamps, m \in SemChoices}

\* The directories that hold one foreign file next to saved records 1 and 2
ForeignStores ==
    {[d EXCEPT ![JunkFile] = j] : d \in {x \in SavedStores : x[3] = NoFile}, j \in ForeignFiles}

InitForeign ==
    /\ store \in ForeignStores
    /\ bdirs = <<>>
    /\ rate = <<>>
    /\ now = 0
    /\ admitted = [c \in Clients |-> <<>>]
    /\ rejected = [c \in Clients |-> 0]
    /\ nsaves = 0
    /\ inflight = <<>>
    /\ call = NoCall

\* Compaction runs and stats requests on a directory that holds a foreign
\* file
NextForeign == Compact \/ Stats

SpecForeign == InitForeign /\ [][NextForeign]_vars

\* The records _compute_content_hash is studied on: every combination of an
\* empty and a non-empty value in the five str fields, transcription also
\* null
AllContents ==
    [vetName : {"", "Dr"}, ownerName : {"", "Ann"}, patientName : {"", "Rex"},
     species : {"", "dog"}, summary : {"", "Bella"}, transcription : {None, "", "text"}]

\* a record and the records that differ from it in one field outside the
\* semantic six
MetaVariants(c) ==
    {c, [c EXCEPT !.id = 2], [c EXCEPT !.timestamp = 2],
     [c EXCEPT !.extractedData = "diagnosis"], [c EXCEPT !.attachments = <<"xray">>]}

\* A pair of calls of _compute_content_hash
InitHash ==
    /\ store = EmptyStore
    /\ bdirs = <<>>
    /\ rate = <<>>
    /\ now = 0
    /\ admitted = [c \in Clients |-> <<>>]
    /\ rejected = [c \in Clients |-> 0]
    /\ nsaves = 0
    /\ inflight = <<>>
    /\ \E a \in AllContents, b \in AllContents :
         \E d \in MetaVariants(ConsultationModel(1, 1, b)) :
            call = [fn |-> "_compute_content_hash",
                    arg |-> <<ConsultationModel(1, 1, a), d>>,
                    done |-> FALSE, ret |-> <<EmptyHash, EmptyHash>>]

Hash ==
    /\ call.fn = "_compute_content_hash"
    /\ ~call.done
    /\ call' = [call EXCEPT !.done = TRUE,
                            !.ret = <<_compute_content_hash(call.arg[1]),
                                      _compute_content_hash(call.arg[2])>>]
    /\ UNCHANGED <<store, bdirs, rate, now, admitted, rejected, nsaves, inflight>>

NextHash == Hash

SpecHash == InitHash /\ [][NextHash]_vars

\* The requests of one client that can be in flight together
ConcurrentRequests ==
    [client : {Client1}, dry_run : BOOLEAN, backup : BOOLEAN, backup_dir : {NoBackupDir}]

\* Three records with the same content: 1 and 2 are the victims
InitConcurrent ==
    /\ store = [EmptyStore EXCEPT ![1] = ConsultationModel(1, 1, SemA),
                                  ![2] = ConsultationModel(2, 2, SemA),
                                  ![3] = ConsultationModel(3, 2, SemA)]
    /\ bdirs = <<>>
    /\ rate = <<>>
    /\ now = 0
    /\ admitted = [c \in Clients |-> <<>>]
    /\ rejected = [c \in Clients |-> 0]
    /\ nsaves = 0
    /\ inflight = <<>>
    /\ call = NoCall

\* The server accepts a request; its handler is scheduled on the event loop
Arrive ==
    \E req \in ConcurrentRequests :
        /\ Len(inflight) < MaxInflight
        /\ inflight' = Append(inflight, req)
        /\ UNCHANGED <<store, bdirs, rate, now, admitted, rejected, nsaves, call>>

\* The event loop runs the handler of one accepted request.  compact_duplicates
\* is a coroutine without await (lines 394-522): it runs from its first to its
\* last statement before any other handler is resumed.
Serve ==
    \E i \in DOMAIN inflight, order \in GlobOrders(store) :
        /\ CompactDuplicates(inflight[i].client, inflight[i].dry_run, inflight[i].backup,
                             inflight[i].backup_dir, Scan(store, order))
        /\ inflight' = SubSeq(inflight, 1, i - 1) \o SubSeq(inflight, i + 1, Len(inflight))

NextConcurrent == Arrive \/ Serve

SpecConcurrent == InitConcurrent /\ [][NextConcurrent]_vars

\* The backup_dir arguments: relative and absolute paths of up to MaxPathLen
\* components
PathParts == {"..", "tmp", "etc", "lnk", "bk", "srv", "vetai", "home", "vet"}

RelativePaths == UNION {[1..n -> PathParts] : n \in 0..MaxPathLen}

BackupDirArgs == RelativePaths \cup {<<"/">> \o p : p \in RelativePaths}

\* A call of _validate_backup_directory on any argument
InitValidate ==
    /\ store = EmptyStore
    /\ bdirs = <<>>
    /\ rate = <<>>
    /\ now = 0
    /\ admitted = [c \in Clients |-> <<>>]
    /\ rejected = [c \in Clients |-> 0]
    /\ nsaves = 0
    /\ inflight = <<>>
    /\ call \in {[fn |-> "_validate_backup_directory", arg |-> p, done |-> FALSE,
                   ret |-> [ok |-> FALSE, path |-> <<>>]] : p \in BackupDirArgs}

Validate ==
    /\ call.fn = "_validate_backup_directory"
    /\ ~call.done
    /\ call' = [call EXCEPT !.done = TRUE, !.ret = _validate_backup_directory(call.arg)]
    /\ UNCHANGED <<store, bdirs, rate, now, admitted, rejected, nsaves, inflight>>

NextValidate == Validate

SpecValidate == InitValidate /\ [][NextValidate]_vars

\* Compaction requests of one client over time, on a store that holds a pair
\* of duplicates
InitGate ==
    /\ store = [EmptyStore EXCEPT ![1] = ConsultationModel(1, 1, SemA),
                                  ![2] = ConsultationModel(2, 2, SemA)]
    /\ bdirs = <<>>
    /\ rate = <<>>
    /\ now = 0
    /\ admitted = [c \in Clients |-> <<>>]
    /\ rejected = [c \in Clients |-> 0]
    /\ nsaves = 0
    /\ inflight = <<>>
    /\ call = NoCall

NextGate == Tick \/ Compact

SpecGate == InitGate /\ [][NextGate]_vars

(***************************************************************************)
(* Requests of several clients                                             *)
(***************************************************************************)
\* The part of a request the handler keys the rate limit on: the addresses of
\* the X-Forwarded-For header (<<>> when the header is absent) and the host of
\* the peer (None when request.client is None)
ClientRequests ==
    {[forwarded |-> <<>>, host |-> Client1],
     [forwarded |-> <<>>, host |-> Client2],
     [forwarded |-> <<Client1, "10.0.0.9">>, host |-> Client2]}

\* Lines 103-111: the first address of X-Forwarded-For, else the peer's host
_get_client_id(request) ==
    IF request.forwarded # <<>> THEN request.forwarded[1]
    ELSE IF request.host # None THEN request.host
    ELSE "unknown"

\* POST /compact/duplicates?backup=false by any of the requests
CompactAs ==
    \E request \in ClientRequests, order \in GlobOrders(store), dry_run \in BOOLEAN :
        /\ CompactDuplicates(_get_client_id(request), dry_run, FALSE, NoBackupDir,
                             Scan(store, order))
        /\ UNCHANGED inflight

\* The store holds one record
InitClients ==
    /\ store = [EmptyStore EXCEPT ![1] = ConsultationModel(1, 1, SemA)]
    /\ bdirs = <<>>
    /\ rate = <<>>
    /\ now = 0
    /\ admitted = [c \in Clients |-> <<>>]
    /\ rejected = [c \in Clients |-> 0]
    /\ nsaves = 0
    /\ inflight = <<>>
    /\ call = NoCall

\* Requests of two clients over time
NextClients == Tick \/ CompactAs

SpecClients == InitClients /\ [][NextClients]_vars

(***************************************************************************)
(* Properties.  A run is one evaluation of the handler in a state: the     *)
(* request, the environment's choices (glob order, mkdir and file          *)
(* operation outcomes) and the result r.                                   *)
(***************************************************************************)
Run(client_id, dry_run, backup, backup_dir, mkdir_ok, oc, r) ==
    [client |-> client_id, dry_run |-> dry_run, backup |-> backup,
     backup_dir |-> backup_dir, mkdir_ok |-> mkdir_ok, oc |-> oc,
     fs |-> r.fs, table |-> r.table, admitted |-> r.admitted, resp |-> r.resp]

\* P holds of every run the state (fs, table, now) allows
ForAllRunsFrom(fs, table, P(_)) ==
    \A order \in GlobOrders(fs.store) :
      LET scan == Scan(fs.store, order)
      IN  \A dry_run \in BOOLEAN, backup \in BOOLEAN, backup_dir \in BackupDirInputs :
            \A mkdir_ok \in MkdirOutcomes(fs.bdirs, scan, now, dry_run, backup, backup_dir),
               oc \in FileOpOutcomes(scan, dry_run) :
              P(Run(Client1, dry_run, backup, backup_dir, mkdir_ok, oc,
                    CompactScanned(fs, table, scan, now, Client1, dry_run, backup,
                                   backup_dir, mkdir_ok, oc)))

ForAllRuns(P(_)) == ForAllRunsFrom([store |-> store, bdirs |-> bdirs], rate, P)

ExistsRun(P(_)) == ~ForAllRuns(LAMBDA run : ~P(run))

\* The states (file system and rate-limit table) the runs satisfying P end in
StatesAfter(P(_)) ==
    UNION {
      LET scan == Scan(store, order)
      IN  UNION {
            {[fs |-> run.fs, table |-> run.table,
              duplicates_removed |-> run.resp.duplicates_removed,
              space_saved_bytes |-> run.resp.space_saved_bytes] :
               run \in {x \in {Run(Client1, q[1], q[2], q[3], q[4], oc,
                                   CompactScanned([store |-> store, bdirs |-> bdirs], rate,
                                                  scan, now, Client1, q[1], q[2], q[3],
                                                  q[4], oc)) :
                                 oc \in FileOpOutcomes(scan, q[1])} : P(x)}} :
            q \in {y \in BOOLEAN \X BOOLEAN \X BackupDirInputs \X BOOLEAN :
                     y[4] \in MkdirOutcomes(bdirs, scan, now, y[1], y[2], y[3])}} :
      order \in GlobOrders(store)}

\* Order of (timestamp, id) pairs, stated on the records themselves
NewerOrSame(a, b) ==
    a.timestamp > b.timestamp \/ (a.timestamp = b.timestamp /\ a.id >= b.id)

SameContent(a, b) == \A k \in SemFields : a[k] = b[k]

HasContent(a) == \E k \in SemFields : a[k] # None /\ a[k] # ""

Records(dir) == {dir[f] : f \in {g \in FileNames : dir[g].kind = "object"}}

\* The members of the duplicate group of record a in directory dir
GroupOf(dir, a) == {b \in Records(dir) : SameContent(a, b)}

InGroup(dir, a) == HasContent(a) /\ Cardinality(GroupOf(dir, a)) >= 2

IsNewest(dir, a) == \A b \in GroupOf(dir, a) : NewerOrSame(a, b)

FileOf(dir, a) == CHOOSE f \in FileNames : dir[f] = a

HasDuplicates(dir) == \E a \in Records(dir) : InGroup(dir, a)

Succeeded(run) == run.resp.status = 200

NoIOError(run) == run.mkdir_ok /\ \A i \in DOMAIN run.oc : run.oc[i] = "ok"

\* C1: in a non-dry-run run with backup=true no file is permanently deleted:
\* files_deleted is empty, and every file that leaves the store is, after the
\* run, in the run's backup directory under its own name with its content.
C1_BackupNeverDeletes ==
    ForAllRuns(LAMBDA run :
        (~run.dry_run /\ run.backup) =>
            /\ run.resp.files_deleted = <<>>
            /\ \A f \in FileNames :
                 (store[f] # NoFile /\ run.fs.store[f] # store[f]) =>
                    /\ run.fs.store[f] = NoFile
                    /\ run.resp.backup_directory # NoDir
                    /\ DirFiles(run.fs.bdirs, run.resp.backup_directory)[f] = store[f])

\* a backup directory holds a file that is no longer in the store
C1_Witness ==
    \E p \in DOMAIN bdirs : \E f \in FileNames :
        bdirs[p][f] # NoFile /\ store[f] = NoFile /\ admitted[Client1] # <<>>

\* C2: in every duplicate group the record with the greatest (timestamp, id)
\* is retained, and every other member of the group is a victim.
C2_SurvivorIsNewest ==
    ForAllRuns(LAMBDA run :
        Succeeded(run) =>
            \A a \in Records(store) :
                InGroup(store, a) =>
                    IF IsNewest(store, a)
                    THEN /\ FileOf(store, a) \notin Range(run.resp.files_to_remove)
                         /\ run.fs.store[FileOf(store, a)] = a
                    ELSE FileOf(store, a) \in Range(run.resp.files_to_remove))

\* two older duplicates are in a backup directory, one of them with the
\* timestamp of the newest, which is in the store
C2_Witness ==
    \E p \in DOMAIN bdirs : \E f, g, h \in FileNames :
        /\ f # g
        /\ bdirs[p][f].kind = "object" /\ bdirs[p][g].kind = "object"
        /\ store[h].kind = "object" /\ store[f] = NoFile /\ store[g] = NoFile
        /\ SameContent(bdirs[p][f], store[h]) /\ SameContent(bdirs[p][g], store[h])
        /\ NewerOrSame(store[h], bdirs[p][f]) /\ NewerOrSame(store[h], bdirs[p][g])
        /\ bdirs[p][f].timestamp = store[h].timestamp

\* C3: a run removes a file from the store only if the store afterwards holds
\* a record with the same fingerprint that is at least as recent, and no
\* non-empty fingerprint of the store disappears.
C3_RemovedOnlyIfNewerRemains ==
    ForAllRuns(LAMBDA run :
        /\ \A f \in FileNames :
             (store[f] # NoFile /\ run.fs.store[f] = NoFile) =>
                /\ store[f].kind = "object"
                /\ \E g \in FileNames :
                     /\ run.fs.store[g].kind = "object"
                     /\ SameContent(run.fs.store[g], store[f])
                     /\ NewerOrSame(run.fs.store[g], store[f])
        /\ \A a \in Records(store) :
             HasContent(a) => \E b \in Records(run.fs.store) : SameContent(a, b))

\* a run deletes two duplicates for good, after an earlier run was admitted
C3_Witness ==
    /\ admitted[Client1] # <<>>
    /\ ExistsRun(LAMBDA run : ~run.backup /\ Len(run.resp.files_deleted) = 2
                              /\ Cardinality(Glob(run.fs.store)) = 1)

\* C7: a dry run mutates nothing, reports no deleted or backed-up file and
\* leaves the rate-limit table as it was; it is never rate limited.
C7_DryRunPure ==
    ForAllRuns(LAMBDA run :
        run.dry_run =>
            /\ run.fs = [store |-> store, bdirs |-> bdirs]
            /\ run.table = rate
            /\ run.resp.status # 429
            /\ run.resp.files_deleted = <<>>
            /\ run.resp.files_backed_up = <<>>)

\* the rate-limit budget is used up and a dry run still reports victims
C7_Witness ==
    /\ Len(History(rate, Client1)) = 3
    /\ ExistsRun(LAMBDA run : run.dry_run /\ run.resp.duplicates_removed > 0)

\* C8: a dry run reports the duplicates_removed and space_saved_bytes of a
\* non-dry-run run made right after it on the same data.
C8_DryRunPredictsRealRun ==
    \A dry \in StatesAfter(LAMBDA run : run.dry_run /\ Succeeded(run)) :
        ForAllRunsFrom(dry.fs, dry.table, LAMBDA run :
            (~run.dry_run /\ Succeeded(run)) =>
                /\ run.resp.duplicates_removed = dry.duplicates_removed
                /\ run.resp.space_saved_bytes = dry.space_saved_bytes)

\* a dry run reports two victims and a real run can follow it, in which one
\* of the two file operations fails
C8_Witness ==
    /\ ExistsRun(LAMBDA run : run.dry_run /\ run.resp.duplicates_removed = 2)
    /\ ExistsRun(LAMBDA run : ~run.dry_run /\ Succeeded(run)
                              /\ Len(run.resp.files_backed_up) = 1
                              /\ run.resp.duplicates_removed = 2)

\* C9 as claimed: after a non-dry-run run without I/O error, a second
\* non-dry-run run finds no victim and moves or deletes nothing, whatever
\* backup and accepted backup directory the runs use.
C9_SecondRunFindsNothing ==
    \A first \in StatesAfter(LAMBDA run : ~run.dry_run /\ Succeeded(run) /\ NoIOError(run)) :
        ForAllRunsFrom(first.fs, first.table, LAMBDA run :
            (~run.dry_run /\ Succeeded(run)) =>
                /\ run.resp.duplicates_removed = 0
                /\ run.fs = first.fs)

\* C10 as claimed: a request whose backup_dir fails validation is rejected
\* and nothing is mutated, whatever dry_run and backup are and whether or not
\* there are victims.
C10_InvalidBackupDirRejected ==
    ForAllRuns(LAMBDA run :
        (run.backup_dir # NoBackupDir /\ ~_validate_backup_directory(run.backup_dir).ok) =>
            /\ ~Succeeded(run)
            /\ run.fs = [store |-> store, bdirs |-> bdirs])

\* The number of requests of client c admitted less than 60 seconds ago
AdmittedInWindow(c) ==
    Cardinality({i \in DOMAIN admitted[c] : now - admitted[c][i] < 60})

\* C4: of one client's non-dry-run requests at most 3 are admitted in any
\* trailing 60-second window: a request is admitted while fewer than 3 were
\* admitted in the last 60 seconds and is answered 429 otherwise.
C4_AtMostThreePerWindow ==
    /\ \A i \in DOMAIN admitted[Client1] :
         i > 3 => admitted[Client1][i] - admitted[Client1][i - 3] >= 60
    /\ ForAllRuns(LAMBDA run :
         ~run.dry_run =>
            /\ (AdmittedInWindow(Client1) < 3 => run.admitted /\ run.resp.status # 429)
            /\ (AdmittedInWindow(Client1) >= 3 => ~run.admitted /\ run.resp.status = 429))

\* three requests were admitted within one window and a fourth was rejected
C4_Witness ==
    /\ Len(admitted[Client1]) = 3
    /\ admitted[Client1][3] - admitted[Client1][1] < 60
    /\ admitted[Client1][1] < admitted[Client1][3]
    /\ now - admitted[Client1][1] < 60
    /\ rejected[Client1] >= 1

\* C5: once 60 seconds have passed since the oldest of the 3 requests that
\* caused the lockout, a request of a client that was rate limited is admitted
\* again, however many of its requests were rejected.
C5_AdmittedAfterWindow ==
    LET n == Len(admitted[Client1])
    IN  ForAllRuns(LAMBDA run :
            (~run.dry_run /\ rejected[Client1] >= 1 /\ n >= 3
             /\ now - admitted[Client1][n - 2] >= 60) =>
                run.admitted /\ run.resp.status # 429)

\* a client rejected MaxRejected times was admitted again exactly 60 seconds
\* after the oldest of its three admitted requests
C5_Witness ==
    /\ admitted[Client1] = <<0, 0, 0, 60>>
    /\ rejected[Client1] = MaxRejected
    /\ now = 60

\* C6: a rate-limited request changes nothing: no file of the store or of a
\* backup directory, no record loaded, and the client's recorded timestamps
\* are as before.
C6_RejectionChangesNothing ==
    ForAllRuns(LAMBDA run :
        run.resp.status = 429 =>
            /\ run.fs = [store |-> store, bdirs |-> bdirs]
            /\ run.table = rate
            /\ run.resp.loaded = 0
            /\ ~run.admitted)

\* a client was rejected, the store still holds duplicates whose removal a
\* run would attempt, and the next request is rejected too
C6_Witness ==
    /\ rejected[Client1] >= 1
    /\ HasDuplicates(store)
    /\ ExistsRun(LAMBDA run : ~run.dry_run /\ ~run.backup /\ run.resp.status = 429)

(***************************************************************************)
(* Error categories                                                        *)
(***************************************************************************)
\* The run reaches line 481 and _validate_backup_directory raises ValueError
ValidationFails(run) ==
    /\ run.resp.status # 429
    /\ ~run.dry_run /\ run.backup
    /\ run.backup_dir # NoBackupDir
    /\ ~_validate_backup_directory(run.backup_dir).ok
    /\ HasDuplicates(store)

\* C11 as claimed: a run whose backup path fails validation is answered with
\* status 400, which is neither the rate-limit status 429 nor the status 500
\* of an unexpected failure.
C11_InvalidPathIs400 ==
    ForAllRuns(LAMBDA run : ValidationFails(run) => run.resp.status = 400)

(***************************************************************************)
(* Backup directory validation                                             *)
(***************************************************************************)
\* The canonical form of a path: made absolute against the working directory,
\* then walked component by component, ".." stepping to the parent and a
\* symbolic link replaced by its target.
Canonical(p) ==
    LET absolute == p # <<>> /\ p[1] = "/"
        parts == IF absolute THEN Tail(p) ELSE p
        walk[i \in 0..Len(parts)] ==
            IF i = 0 THEN (IF absolute THEN <<>> ELSE <<"srv", "vetai">>)
            ELSE LET at == IF parts[i] = ".."
                           THEN [k \in 1..(IF Len(walk[i - 1]) = 0 THEN 0 ELSE Len(walk[i - 1]) - 1)
                                    |-> walk[i - 1][k]]
                           ELSE Append(walk[i - 1], parts[i])
                 IN  IF at = <<"tmp", "lnk">> THEN <<"etc">> ELSE at
    IN  walk[Len(parts)]

\* the parent of the record store, /tmp and the home directory
AllowListedRoots == {<<"srv", "vetai">>, <<"tmp">>, <<"home", "vet">>}

Under(path, root) ==
    Len(path) >= Len(root) /\ \A i \in 1..Len(root) : path[i] = root[i]

\* C12: _validate_backup_directory rejects every path whose canonical form is
\* under none of the three allow-listed roots, and accepts every path whose
\* canonical form is under one of them, returning the canonical form.
C12_ValidationByCanonicalForm ==
    (call.fn = "_validate_backup_directory" /\ call.done) =>
        IF \E root \in AllowListedRoots : Under(Canonical(call.arg), root)
        THEN call.ret.ok /\ call.ret.path = Canonical(call.arg)
        ELSE ~call.ret.ok

\* the traversal /tmp/../../etc has been validated and rejected
C12_Witness ==
    /\ call.fn = "_validate_backup_directory" /\ call.done
    /\ call.arg = <<"/", "tmp", "..", "..", "etc">>
    /\ ~call.ret.ok

(***************************************************************************)
(* Result counts and per-file failures                                     *)
(***************************************************************************)
\* the victims the run moved or deleted
Processed(run) == Len(run.resp.files_deleted) + Len(run.resp.files_backed_up)

\* C13 as claimed: remaining_consultations is the number of records loaded
\* minus the number of victims moved or deleted in the run, so a dry run and
\* a run whose file operations all failed report the loaded count.
C13_RemainingCountsProcessed ==
    ForAllRuns(LAMBDA run :
        Succeeded(run) =>
            run.resp.remaining_consultations = run.resp.loaded - Processed(run))

\* The run passes the gate and the backup set-up and enters the loop of
\* lines 490-506, where at least one file operation raises OSError
FileOperationFails(run) ==
    /\ ~run.dry_run
    /\ run.resp.status # 429
    /\ run.mkdir_ok
    /\ (run.backup /\ run.backup_dir # NoBackupDir) =>
           _validate_backup_directory(run.backup_dir).ok
    /\ \E i \in DOMAIN run.oc : run.oc[i] = "error"

\* C14: when the move or delete of a victim fails the run still returns a
\* result; the failed victim is in neither files_deleted nor files_backed_up
\* and stays in the store, and every victim whose operation does not fail is
\* moved or deleted.
C14_FailureDoesNotAbort ==
    ForAllRuns(LAMBDA run :
        FileOperationFails(run) =>
            /\ run.resp.status = 200
            /\ Len(run.resp.files_to_remove) = Len(run.oc)
            /\ \A i \in DOMAIN run.oc :
                 LET f == run.resp.files_to_remove[i]
                     listed == f \in Range(run.resp.files_deleted)
                                     \cup Range(run.resp.files_backed_up)
                 IN  IF run.oc[i] = "error"
                     THEN ~listed /\ run.fs.store[f] = store[f]
                     ELSE listed)

\* a run in which the first of two file operations fails and the second
\* succeeds
C14_Witness ==
    ExistsRun(LAMBDA run :
        /\ FileOperationFails(run)
        /\ Len(run.oc) = 2 /\ run.oc[1] = "error" /\ run.oc[2] = "ok"
        /\ Processed(run) = 1)

(***************************************************************************)
(* Files that are not records                                              *)
(***************************************************************************)
\* content cannot be parsed as a record
Unparsable(content) ==
    \/ content.kind = "invalid"
    \/ content.kind = "array"
    \/ content.kind = "object" /\ content.id = MissingKey

\* the directory without its foreign file
WithoutJunk(dir) == [dir EXCEPT ![JunkFile] = NoFile]

\* the victims of a directory of saved records: the members of a duplicate
\* group other than its newest
ExpectedVictims(dir) ==
    {FileOf(dir, a) : a \in {b \in Records(dir) : InGroup(dir, b) /\ ~IsNewest(dir, b)}}

\* the run does not fail for a reason of its own (rejected backup path,
\* mkdir failure)
BackupSetupSucceeds(run) ==
    /\ run.mkdir_ok
    /\ (~run.dry_run /\ run.backup /\ run.backup_dir # NoBackupDir) =>
           _validate_backup_directory(run.backup_dir).ok

\* C15 as claimed: with an unparsable file in the store a run still completes,
\* its victims are those of the valid records alone, and the unparsable file
\* is left in place.
C15_UnparsableFileSkipped ==
    ForAllRuns(LAMBDA run :
        (Unparsable(store[JunkFile]) /\ BackupSetupSucceeds(run) /\ run.resp.status # 429) =>
            /\ run.resp.status = 200
            /\ Range(run.resp.files_to_remove) = ExpectedVictims(WithoutJunk(store))
            /\ run.fs.store[JunkFile] = store[JunkFile])

(***************************************************************************)
(* Empty content, fingerprints, enumeration order                          *)
(***************************************************************************)
\* the files holding a record whose six semantic fields are all empty or null
EmptyRecords(dir) == {f \in FileNames : dir[f].kind = "object" /\ ~HasContent(dir[f])}

\* C16: a record whose semantic fields are all empty is never a victim: no
\* run lists it in files_to_remove or touches its file, and a store that
\* holds only such records yields duplicates_removed = 0.
C16_EmptyContentNeverGrouped ==
    ForAllRuns(LAMBDA run :
        Succeeded(run) =>
            /\ \A f \in EmptyRecords(store) :
                 /\ f \notin Range(run.resp.files_to_remove)
                 /\ run.fs.store[f] = store[f]
            /\ EmptyRecords(store) = Glob(store) => run.resp.duplicates_removed = 0)

\* three records with empty content are loaded by a non-dry-run run
C16_Witness ==
    /\ Cardinality(EmptyRecords(store)) = 3
    /\ ExistsRun(LAMBDA run : ~run.dry_run /\ Succeeded(run) /\ run.resp.loaded = 3)

Survivors(scan) ==
    {Head(SortedGroup(<<>>, scan.duplicate_groups[i].group)) :
        i \in DOMAIN scan.duplicate_groups}

\* C18: the survivor of each duplicate group and the set of victim files are
\* the same for every order in which glob yields the files of the store.
C18_OrderIndependent ==
    LET first == Scan(store, CHOOSE o \in GlobOrders(store) : TRUE)
    IN  \A order \in GlobOrders(store) :
          LET scan == Scan(store, order)
          IN  /\ Survivors(scan) = Survivors(first)
              /\ Range(scan.files_to_remove) = Range(first.files_to_remove)

\* three records with the same content, two of them with the same timestamp,
\* are compacted by a non-dry-run run
C18_Witness ==
    /\ Cardinality(GlobOrders(store)) = 6
    /\ \E a, b \in Records(store) :
         a # b /\ HasContent(a) /\ SameContent(a, b) /\ a.timestamp = b.timestamp
    /\ ExistsRun(LAMBDA run : ~run.dry_run /\ Succeeded(run)
                              /\ run.resp.duplicates_removed = 2)

(***************************************************************************)
(* Concurrent requests                                                     *)
(***************************************************************************)
NonDryRunInFlight == {i \in DOMAIN inflight : ~inflight[i].dry_run}

\* P holds of every run of the in-flight request i in the current state
ForAllRunsOf(i, P(_)) ==
    LET req == inflight[i]
        fs == [store |-> store, bdirs |-> bdirs]
    IN  \A order \in GlobOrders(store) :
          LET scan == Scan(store, order)
          IN  \A mkdir_ok \in MkdirOutcomes(bdirs, scan, now, req.dry_run, req.backup,
                                            req.backup_dir),
                 oc \in FileOpOutcomes(scan, req.dry_run) :
                P(Run(req.client, req.dry_run, req.backup, req.backup_dir, mkdir_ok, oc,
                      CompactScanned(fs, rate, scan, now, req.client, req.dry_run,
                                     req.backup, req.backup_dir, mkdir_ok, oc)))

InWindow(history) == SelectSeq(history, LAMBDA ts : now - ts < 60)

\* C20: however the requests of a client that are in flight together are
\* scheduled, the stored history of the client holds the time of every
\* request admitted within the window and of no other, at most 3 of them, and
\* a request is admitted exactly when the history holds fewer than 3, its time
\* being appended to the history as it was.
C20_HistoryUpdateAtomic ==
    /\ InWindow(History(rate, Client1)) = InWindow(admitted[Client1])
    /\ Len(InWindow(admitted[Client1])) <= 3
    /\ \A i \in NonDryRunInFlight :
         ForAllRunsOf(i, LAMBDA run :
            LET before == InWindow(History(rate, run.client))
            IN  IF Len(before) < 3
                THEN /\ run.admitted
                     /\ History(run.table, run.client) = Append(before, now)
                ELSE /\ ~run.admitted /\ run.resp.status = 429
                     /\ History(run.table, run.client) = before)

\* two non-dry-run requests of the client are in flight together while one
\* place is left in the window
C20_Witness ==
    /\ Cardinality(NonDryRunInFlight) = 2
    /\ Len(admitted[Client1]) = 2
    /\ Len(History(rate, Client1)) = 2

(***************************************************************************)
(* The stats operation                                                     *)
(***************************************************************************)
\* P holds of every stats call the state allows
ForAllStats(P(_)) ==
    \A order \in GlobOrders(store) :
        P(get_compaction_stats([store |-> store, bdirs |-> bdirs], rate, now, order))

ExistsStats(P(_)) == ~ForAllStats(LAMBDA r : ~P(r))

\* C21: a stats call leaves every file of the store and of the backup
\* directories and the rate-limit table as they were, and is never answered
\* with the rate-limit rejection.
C21_StatsReadOnly ==
    ForAllStats(LAMBDA r :
        /\ r.fs = [store |-> store, bdirs |-> bdirs]
        /\ r.table = rate
        /\ r.resp.status # 429)

\* stats is called while the client's rate-limit budget is used up, a backup
\* directory holds a file and the store still holds duplicates
C21_Witness ==
    /\ Len(History(rate, Client1)) = 3
    /\ \E p \in DOMAIN bdirs : \E f \in FileNames : bdirs[p][f] # NoFile
    /\ ExistsStats(LAMBDA r : r.resp.status = 200 /\ r.resp.potential_duplicates > 0)

(***************************************************************************)
(* Startup-time auto-compaction                                            *)
(***************************************************************************)
\* Values of the two environment variables; Unset is a variable that is not
\* in the environment
Unset == "<unset>"

AutoCompactValues == {Unset, "true", "TRUE", "false", "1"}

ConfirmValues ==
    {Unset, "I_UNDERSTAND_DATA_WILL_BE_MOVED_TO_BACKUP",
     "i_understand_data_will_be_moved_to_backup", "true", "yes"}

\* os.getenv(name, default)
getenv(value, default) == IF value = Unset THEN default ELSE value

\* str.lower on the values above
lower(s) == IF s = "TRUE" THEN "true" ELSE s

\* Lines 395-400: request is the only parameter without a default
RequiredParams == {"request"}

\* A direct call of the handler function; scan is the scan of the store the
\* body would make.  Python binds the arguments before
\* the first statement of the body: a missing required argument raises
\* TypeError and nothing of lines 411-522 executes.
DirectCall(kwargs, fs, table, current_time, scan, mkdir_ok, oc) ==
    IF ~(RequiredParams \subseteq DOMAIN kwargs)
    THEN [ran |-> FALSE, raised |-> "TypeError", r |-> [fs |-> fs, table |-> table]]
    ELSE [ran |-> TRUE, raised |-> None,
          r |-> CompactScanned(fs, table, scan, current_time, kwargs.request,
                               kwargs.dry_run, kwargs.backup, kwargs.backup_dir,
                               mkdir_ok, oc)]

\* An auto-compaction that passes a request and deletes permanently
AutoCompact_PermanentDelete(fs, table, current_time, scan, mkdir_ok, oc) ==
    DirectCall([request |-> Client1, dry_run |-> FALSE, backup |-> FALSE,
                backup_dir |-> NoBackupDir],
               fs, table, current_time, scan, mkdir_ok, oc)

\* Line 803: compact_duplicates(dry_run=False, backup=True)
AutoCompact(fs, table, current_time, scan, mkdir_ok, oc) ==
    DirectCall([dry_run |-> FALSE, backup |-> TRUE],
               fs, table, current_time, scan, mkdir_ok, oc)

\* Lines 788-812 of startup_event under the environment env: whether a
\* compaction ran and the file system and table it leaves in r.  `except
\* Exception` at line 811 only logs.
startup_event(env, fs, table, current_time, scan, mkdir_ok, oc) ==
    LET auto_compact == lower(getenv(env.AUTO_COMPACT_ON_STARTUP, "false")) = "true"
        auto_compact_confirm == getenv(env.AUTO_COMPACT_CONFIRM, "")
    IN  IF auto_compact
           /\ auto_compact_confirm = "I_UNDERSTAND_DATA_WILL_BE_MOVED_TO_BACKUP"
        THEN AutoCompact(fs, table, current_time, scan, mkdir_ok, oc)
        ELSE [ran |-> FALSE, raised |-> None, r |-> [fs |-> fs, table |-> table]]

\* The process is about to start on a directory earlier runs have written
InitStartup ==
    /\ store \in SavedStores
    /\ bdirs = <<>>
    /\ rate = <<>>
    /\ now = 0
    /\ admitted = [c \in Clients |-> <<>>]
    /\ rejected = [c \in Clients |-> 0]
    /\ nsaves = 0
    /\ inflight = <<>>
    /\ \E a \in AutoCompactValues, c \in ConfirmValues :
         call = [fn |-> "startup_event",
                 arg |-> [AUTO_COMPACT_ON_STARTUP |-> a, AUTO_COMPACT_CONFIRM |-> c],
                 done |-> FALSE, ret |-> [ran |-> FALSE, raised |-> None]]

\* The startup hook runs once
Startup ==
    /\ call.fn = "startup_event"
    /\ ~call.done
    /\ \E order \in GlobOrders(store) :
         LET scan == Scan(store, order)
         IN  \E mkdir_ok \in MkdirOutcomes(bdirs, scan, now, FALSE, TRUE, NoBackupDir),
                oc \in FileOpOutcomes(scan, FALSE) :
               LET s == startup_event(call.arg, [store |-> store, bdirs |-> bdirs], rate,
                                      now, scan, mkdir_ok, oc)
               IN  /\ store' = s.r.fs.store
                   /\ bdirs' = s.r.fs.bdirs
                   /\ rate' = s.r.table
                   /\ call' = [call EXCEPT !.done = TRUE,
                                           !.ret = [ran |-> s.ran, raised |-> s.raised]]
    /\ UNCHANGED <<now, admitted, rejected, nsaves, inflight>>

NextStartup == Startup

SpecStartup == InitStartup /\ [][NextStartup]_vars

\* P holds of every way the pending startup hook can run
ForAllStartups(P(_)) ==
    \A order \in GlobOrders(store) :
      LET scan == Scan(store, order)
      IN  \A mkdir_ok \in MkdirOutcomes(bdirs, scan, now, FALSE, TRUE, NoBackupDir),
             oc \in FileOpOutcomes(scan, FALSE) :
            P(startup_event(call.arg, [store |-> store, bdirs |-> bdirs], rate, now,
                            scan, mkdir_ok, oc))

StartupPending == call.fn = "startup_event" /\ ~call.done

Confirmed(env) ==
    /\ env.AUTO_COMPACT_ON_STARTUP = "true"
    /\ env.AUTO_COMPACT_CONFIRM = "I_UNDERSTAND_DATA_WILL_BE_MOVED_TO_BACKUP"

HoldsRecord(dir, rec) == rec.id \in FileNames /\ dir[rec.id] = rec

FileCount(dir) == Cardinality({f \in FileNames : dir[f] # NoFile})

\* C23: every file of the store holds a record whose id is the file's name,
\* and after a save of a record the store holds that record in the file named
\* by its id, every other file is as before, and the number of files grew
\* only if the id had no file.
C23_OneFilePerId ==
    /\ \A f \in FileNames : store[f] # NoFile => store[f].id = f
    /\ \A id \in SaveIds, timestamp \in Stamps, sem \in SemChoices :
         LET rec == ConsultationModel(id, timestamp, sem)
             w == WriteConsultation([store |-> store, bdirs |-> bdirs], rec)
         IN  /\ HoldsRecord(w.store, rec)
             /\ \A f \in FileNames \ {id} : w.store[f] = store[f]
             /\ FileCount(w.store) =
                  FileCount(store) + (IF id \in FileNames /\ store[id] # NoFile THEN 0 ELSE 1)

(***************************************************************************)
(* Responses                                                               *)
(***************************************************************************)
\* The result summary of a completed run
WellFormedSummary(run) ==
    /\ run.resp.detail = ""
    /\ run.resp.duplicates_removed = Len(run.resp.files_to_remove)
    /\ run.resp.remaining_consultations >= 0
    /\ run.resp.space_saved_bytes >= 0
    /\ Range(run.resp.files_deleted) \cup Range(run.resp.files_backed_up)
          \subseteq Range(run.resp.files_to_remove)
    /\ Range(run.resp.files_deleted) \cap Range(run.resp.files_backed_up) = {}
    /\ run.dry_run => Processed(run) = 0
    /\ run.resp.files_backed_up # <<>> => run.resp.backup_directory # NoDir

\* A rejection or failure leaves the file system as it was
Untouched(run) == run.fs = [store |-> store, bdirs |-> bdirs]

\* C24: in every state the service reaches, whatever responses it gave
\* before, every compaction request is answered, and the answer is a
\* well-formed summary, the rate-limit rejection, the invalid-backup-path
\* rejection or the generic failure; the three rejections leave the files
\* untouched.
C24_ResponseCategories ==
    /\ ExistsRun(LAMBDA run : TRUE)
    /\ ForAllRuns(LAMBDA run :
          \/ run.resp.status = 200 /\ WellFormedSummary(run)
          \/ run.resp.status = 429 /\ ~run.dry_run /\ Untouched(run)
          \/ run.resp.status = 400 /\ Untouched(run)
          \/ run.resp.status = 500 /\ run.resp.detail # "" /\ Untouched(run))

\* after a run that moved files to a backup directory and a rate-limit
\* rejection, the service answers a dry run with a summary that plans
\* removals and a real run with the rate-limit rejection
C24_Witness ==
    /\ rejected[Client1] >= 1
    /\ DOMAIN bdirs # {}
    /\ ExistsRun(LAMBDA run : Succeeded(run) /\ run.dry_run
                                /\ run.resp.duplicates_removed > 0)
    /\ ExistsRun(LAMBDA run : run.resp.status = 429)

\* C25: a non-dry-run request passes the rate-limit check once, before any
\* record is loaded: when it is rejected nothing was loaded and no file
\* touched, and when it is admitted the caller's history afterwards is its
\* unexpired part followed by exactly one new timestamp, whether the run
\* finds victims, finds none or fails; a dry run leaves the table alone.
C25_OneCheckBeforeLoading ==
    ForAllRuns(LAMBDA run :
        LET before == PruneExpired(History(rate, run.client), now)
        IN  /\ run.dry_run => run.table = rate /\ run.resp.status # 429
            /\ ~run.dry_run /\ run.resp.status = 429 =>
                  /\ run.resp.loaded = 0
                  /\ Untouched(run)
                  /\ History(run.table, run.client) = before
            /\ ~run.dry_run /\ run.resp.status # 429 =>
                  /\ run.admitted
                  /\ History(run.table, run.client) = Append(before, now)
                  /\ \A c \in DOMAIN rate \ {run.client} : run.table[c] = rate[c])

\* with an expired and an unexpired timestamp in the caller's history, one
\* admitted run fails after the check and another finds no file to process
C25_Witness ==
    /\ Len(History(rate, Client1)) = 2
    /\ Len(PruneExpired(History(rate, Client1), now)) = 1
    /\ ExistsRun(LAMBDA run : ~run.dry_run /\ run.resp.status = 500)
    /\ ExistsRun(LAMBDA run : ~run.dry_run /\ Succeeded(run) /\ Processed(run) = 0)

(***************************************************************************)
(* The default backup directory                                            *)
(***************************************************************************)
\* The run moved files into the directory it names by the time of the run
UsesDefaultDirectory(run) ==
    /\ ~run.dry_run
    /\ run.backup
    /\ run.backup_dir = NoBackupDir
    /\ Succeeded(run)
    /\ run.resp.files_backed_up # <<>>

\* C26: a run without a caller-supplied backup directory that moves victims
\* moves them into a directory of its own: the directory holds no file that
\* an earlier run placed there.
C26_DefaultDirectoryPerRun ==
    ForAllRuns(LAMBDA run :
        UsesDefaultDirectory(run) =>
            /\ run.resp.backup_directory = DefaultBackupPath(now)
            /\ \A f \in FileNames : DirFiles(bdirs, run.resp.backup_directory)[f] = NoFile)

(***************************************************************************)
(* The duplicate grouper as a function of the record list                  *)
(***************************************************************************)
\* The record lists: the i-th record has id i and any of the contents
RecordLists ==
    UNION {{[i \in 1..n |-> ConsultationModel(i, 1, sem[i])] : sem \in [1..n -> SemChoices]} :
           n \in 0..MaxRecords}

\* One call of _find_duplicate_consultations
InitGroup ==
    /\ store = EmptyStore
    /\ bdirs = <<>>
    /\ rate = <<>>
    /\ now = 0
    /\ admitted = [c \in Clients |-> <<>>]
    /\ rejected = [c \in Clients |-> 0]
    /\ nsaves = 0
    /\ inflight = <<>>
    /\ \E l \in RecordLists :
         call = [fn |-> "_find_duplicate_consultations", arg |-> l,
                 done |-> FALSE, ret |-> <<>>]

Group ==
    /\ call.fn = "_find_duplicate_consultations"
    /\ ~call.done
    /\ call' = [call EXCEPT !.done = TRUE,
                            !.ret = _find_duplicate_consultations(call.arg)]
    /\ UNCHANGED <<store, bdirs, rate, now, admitted, rejected, nsaves, inflight>>

NextGroup == Group

SpecGroup == InitGroup /\ [][NextGroup]_vars

\* The input records with the fingerprint h
ClassOf(consultations, h) ==
    {c \in Range(consultations) : _compute_content_hash(c) = h}

\* C27: the groups returned are exactly the fingerprint classes of the input
\* with a non-empty fingerprint and at least 2 members: each group has 2 or
\* more records, which are the input records with the group's fingerprint,
\* each once; no two groups share a fingerprint or a record; and every record
\* whose non-empty fingerprint another input record shares is in a group.
C27_GroupsAreFingerprintClasses ==
    call.fn = "_find_duplicate_consultations" /\ call.done =>
        /\ \A g \in DOMAIN call.ret :
              /\ Len(call.ret[g].group) >= 2
              /\ call.ret[g].hash # EmptyHash
              /\ Range(call.ret[g].group) = ClassOf(call.arg, call.ret[g].hash)
              /\ Cardinality(Range(call.ret[g].group)) = Len(call.ret[g].group)
        /\ \A g, h \in DOMAIN call.ret :
              g # h => /\ call.ret[g].hash # call.ret[h].hash
                       /\ Range(call.ret[g].group) \cap Range(call.ret[h].group) = {}
        /\ \A i, j \in DOMAIN call.arg :
              /\ i # j
              /\ _compute_content_hash(call.arg[i]) # EmptyHash
              /\ _compute_content_hash(call.arg[i]) = _compute_content_hash(call.arg[j])
              => \E g \in DOMAIN call.ret : call.arg[i] \in Range(call.ret[g].group)

\* the grouper was given two pairs of duplicates and a record without content
\* and returned the two pairs
C27_Witness ==
    /\ call.fn = "_find_duplicate_consultations"
    /\ call.done
    /\ Len(call.arg) = 5
    /\ Len(call.ret) = 2
    /\ \E i \in DOMAIN call.arg : _compute_content_hash(call.arg[i]) = EmptyHash

(***************************************************************************)
(* The figures of the stats operation                                      *)
(***************************************************************************)
\* The files of the store that hold a JSON object
ObjectFiles == {f \in Glob(store) : IsObject(store[f])}

\* The files whose record shares its non-empty fingerprint with another file
DuplicateFiles ==
    {f \in ObjectFiles :
        /\ _compute_content_hash(store[f]) # EmptyHash
        /\ \E g \in ObjectFiles \ {f} :
              _compute_content_hash(store[g]) = _compute_content_hash(store[f])}

DuplicateClasses == {_compute_content_hash(store[f]) : f \in DuplicateFiles}

RECURSIVE SizeOfFiles(_)
SizeOfFiles(files) ==
    IF files = {} THEN 0
    ELSE LET f == CHOOSE x \in files : TRUE
         IN  _get_file_size(store[f]) + SizeOfFiles(files \ {f})

\* The average size in whole bytes of the given files
AverageSize(files) == SizeOfFiles(files) \div Max(Cardinality(files), 1)

\* C28: a stats call that is answered reports as potential_duplicates the sum
\* over the duplicate groups of the group size minus one, and as
\* potential_space_recovery_bytes that number times the average file size of
\* the store, the average taken over all files or over the record files.
C28_StatsFigures ==
    ForAllStats(LAMBDA r :
        r.resp.status = 200 =>
            /\ r.resp.potential_duplicates
                  = Cardinality(DuplicateFiles) - Cardinality(DuplicateClasses)
            /\ r.resp.potential_space_recovery_bytes
                  \in {r.resp.potential_duplicates * AverageSize(Glob(store)),
                       r.resp.potential_duplicates * AverageSize(ObjectFiles)})

(***************************************************************************)
(* The loader's record list and id-to-path map                             *)
(***************************************************************************)
\* C29: whatever the enumeration order, every entry of the loaded record list
\* has an id that the id-to-path map sends to the file holding that record,
\* and the list has as many entries as the map, so that every record counted
\* or grouped can be acted on.
C29_LoadedRecordsHavePaths ==
    \A order \in GlobOrders(store) :
        LET scan == Scan(store, order)
        IN  /\ \A i \in DOMAIN scan.consultations :
                  /\ IsObject(scan.consultations[i])
                  /\ scan.consultations[i].id \in DOMAIN scan.file_map
                  /\ store[scan.file_map[scan.consultations[i].id]] = scan.consultations[i]
            /\ Len(scan.consultations) = Cardinality(DOMAIN scan.file_map)

(***************************************************************************)
(* Backed-up files and the store                                           *)
(***************************************************************************)
\* C30: after a run that is neither a dry run nor a permanent deletion, no
\* file the response lists in files_backed_up is still among the files of the
\* store, whichever accepted backup directory the run used.
C30_BackedUpFilesLeaveStore ==
    ForAllRuns(LAMBDA run :
        ~run.dry_run /\ run.backup /\ Succeeded(run) =>
            \A f \in Range(run.resp.files_backed_up) : f \notin Glob(run.fs.store))

(***************************************************************************)
(* Files already in a backup directory                                     *)
(***************************************************************************)
\* C31: a run never overwrites or destroys a file a backup directory already
\* holds: after any run, following any saves and runs, every file of every
\* backup directory is still there with the content it had.
C31_BackupNeverOverwritten ==
    ForAllRuns(LAMBDA run :
        \A p \in DOMAIN bdirs : \A f \in FileNames :
            bdirs[p][f] # NoFile =>
                /\ p \in DOMAIN run.fs.bdirs
                /\ run.fs.bdirs[p][f] = bdirs[p][f])

(***************************************************************************)
(* Files that are not victims                                              *)
(***************************************************************************)
\* The files of the directory that no run may touch: unparsable files and the
\* files of records without content, with unique content, or newest in their
\* duplicate group
NonVictims(dir) ==
    {f \in Glob(dir) :
        \/ Unparsable(dir[f])
        \/ ~InGroup(dir, dir[f])
        \/ IsNewest(dir, dir[f])}

C33_RemovedCountsProcessed ==
    ForAllRuns(LAMBDA run :
        ~run.dry_run /\ Succeeded(run) =>
            run.resp.duplicates_removed
                = Len(run.resp.files_deleted) + Len(run.resp.files_backed_up))

(***************************************************************************)
(* Stats against a dry run                                                 *)
(***************************************************************************)
\* C34: on the same store, the potential_duplicates of any answered stats
\* call equals the duplicates_removed of any answered dry run.
C34_StatsAgreesWithDryRun ==
    ForAllStats(LAMBDA r :
        ForAllRuns(LAMBDA run :
            run.dry_run /\ Succeeded(run) /\ r.resp.status = 200 =>
                r.resp.potential_duplicates = run.resp.duplicates_removed))

(***************************************************************************)
(* Bounds on the figures of the stats operation                            *)
(***************************************************************************)
\* C35: every answered stats call reports consultation_count <= total_files,
\* potential_duplicates <= max(consultation_count - 1, 0) and
\* potential_space_recovery_bytes <= total_size_bytes.
C35_StatsBounds ==
    ForAllStats(LAMBDA r :
        r.resp.status = 200 =>
            /\ r.resp.consultation_count <= r.resp.total_files
            /\ r.resp.potential_duplicates <= Max(r.resp.consultation_count - 1, 0)
            /\ r.resp.potential_space_recovery_bytes <= r.resp.total_size_bytes)

\* stats is called on a store that holds an unparsable file and two records
\* of one content, so that a duplicate is reported and the estimate is
\* computed from a total that includes the unparsable file
C35_Witness ==
    ExistsStats(LAMBDA r :
        /\ r.resp.status = 200
        /\ r.resp.potential_duplicates = 1
        /\ r.resp.consultation_count < r.resp.total_files
        /\ r.resp.potential_space_recovery_bytes > 0)

(***************************************************************************)
(* The stored histories                                                    *)
(***************************************************************************)
\* C36: every stored history holds at most 3 timestamps, none of them in the
\* future, and right after a rate-limit check of a client every timestamp
\* stored for it is less than 60 seconds older than the time of the check: a
\* timestamp that is exactly 60 seconds old has been dropped.
C36_HistoriesBoundedAndFresh ==
    /\ \A c \in DOMAIN rate :
          /\ Len(rate[c]) <= RATE_LIMIT_MAX_REQUESTS
          /\ \A i \in DOMAIN rate[c] : rate[c][i] <= now
    /\ ForAllRuns(LAMBDA run :
          ~run.dry_run =>
              /\ run.client \in DOMAIN run.table
              /\ Len(run.table[run.client]) <= RATE_LIMIT_MAX_REQUESTS
              /\ \A i \in DOMAIN run.table[run.client] :
                    now - run.table[run.client][i] < RATE_LIMIT_WINDOW_SECONDS)

\* the stored history is full, its oldest timestamp is exactly 60 seconds old,
\* and the check drops it and admits the request
C36_Witness ==
    /\ Len(History(rate, Client1)) = 3
    /\ now - History(rate, Client1)[1] = 60
    /\ ExistsRun(LAMBDA run :
          /\ ~run.dry_run /\ run.admitted
          /\ Len(History(run.table, Client1)) <= 3
          /\ History(run.table, Client1)[1] # History(rate, Client1)[1])

(***************************************************************************)
(* Independence of the clients' rate limits                                *)
(***************************************************************************)
\* P holds of every permanent-deletion request any of the clients can make
ForAllRequests(P(_)) ==
    \A request \in ClientRequests, order \in GlobOrders(store), dry_run \in BOOLEAN :
      LET scan == Scan(store, order)
      IN  \A oc \in FileOpOutcomes(scan, dry_run) :
            P(Run(_get_client_id(request), dry_run, FALSE, NoBackupDir, TRUE, oc,
                  CompactScanned([store |-> store, bdirs |-> bdirs], rate, scan, now,
                                 _get_client_id(request), dry_run, FALSE, NoBackupDir,
                                 TRUE, oc)))

ExistsRequest(P(_)) == ~ForAllRequests(LAMBDA run : ~P(run))

\* C37: a request that is not a dry run is admitted exactly when fewer than 3
\* requests under the same client key were admitted in the last 60 seconds,
\* whatever was admitted under other keys; and handling a request, admitted or
\* rejected, leaves the history stored under every other key as it was.
C37_ClientsIndependent ==
    ForAllRequests(LAMBDA run :
        /\ ~run.dry_run => (run.admitted <=> AdmittedInWindow(run.client) < 3)
        /\ ~run.dry_run => (run.resp.status = 429 <=> AdmittedInWindow(run.client) >= 3)
        /\ DOMAIN run.table \subseteq DOMAIN rate \cup {run.client}
        /\ \A d \in DOMAIN rate \ {run.client} :
              d \in DOMAIN run.table /\ run.table[d] = rate[d])

\* one client has used up its budget and was rejected while the other has one
\* request on record: the first is rejected again, the second is admitted, and
\* a request forwarded for the first by a proxy is rejected as well
C37_Witness ==
    /\ AdmittedInWindow(Client1) = 3
    /\ rejected[Client1] >= 1
    /\ AdmittedInWindow(Client2) = 1
    /\ ExistsRequest(LAMBDA run : run.client = Client2 /\ run.admitted)
    /\ ExistsRequest(LAMBDA run : run.client = Client1 /\ run.resp.status = 429)

====
